---- MODULE Spec2Model ----
(***************************************************************************)
(* A model of analyze_streaks.py: the aggregation pass of main() over the  *)
(* season files, the yearly-count report, the ranking functions            *)
(* (compute_rank, top_rank_annotation, percentile_rank) and the chart      *)
(* renderer (build_distribution_chart).                                    *)
(*                                                                         *)
(* Text fields are tuples of one-character strings, so that strip(),       *)
(* upper() and int() are computed character by character.  Floats are      *)
(* fixed-point integers counted in grid units: One units make 1.0 and the  *)
(* 1e-9 tolerances are RANK_TOLERANCE units, so that values closer than    *)
(* the tolerance, and values that are almost but not exactly whole, exist  *)
(* in the model.  The grid keeps the order of the tolerance and 1.0, not   *)
(* their ratio of 1e9: the code only ever compares a difference with the   *)
(* tolerance.  Quotients that the code leaves as floats (percentiles, bin  *)
(* edges) are kept exact as <<numerator, denominator>>, so a bin index is  *)
(* the exact floor, without the rounding of a float division.              *)
(***************************************************************************)
EXTENDS Integers, Sequences, FiniteSets, Bags, TLC

VARIABLES
    pc,                              \* position in main(): "start", "agg", "done"; "fn" where a function is called on its own
    season,                          \* the season of the file being read, or None
    processed,                       \* history: the bag of records that passed the Length parse
    year_counts,                     \* threshold -> (season -> count)
    team_streak_totals_by_threshold, \* threshold -> ((team, season) -> sum of lengths)
    team_win_loss_counts,            \* threshold -> ((team, season) -> [WIN, LOSS])
    chrono,                          \* (team, season) -> sequence of [date, type, length]
    swing_counts,                    \* threshold -> ((team, season) -> swings)
    report,                          \* threshold -> the yearly-count section printed for it
    args,                            \* the distribution a function is called on
    out                              \* its result

vars == <<pc, season, processed, year_counts,
          team_streak_totals_by_threshold, team_win_loss_counts,
          chrono, swing_counts, report, args, out>>

\* An optional value: None, or Some(x); The(m) is the x of Some(x).
None == <<>>
Some(x) == <<x>>
The(m) == m[1]

\* ------------------------------------------------------------------ bounds
MaxRows == 2
MaxSwingRows == 3
MaxLen == 3
MaxRankValue == 4
MaxChartLen == 3

\* --------------------------------------------------------- program constants
IGNORED_SEASONS == {2020}
CURRENT_SEASON == 2025
THRESHOLDS == 5..10
WIN == <<"W", "I", "N">>
LOSS == <<"L", "O", "S", "S">>
WIN_LOSS_TYPES == {WIN, LOSS}
UNKNOWN_TEAM == "Unknown Team"

\* ------------------------------------------------------------------- text
Lower == <<"a","b","c","d","e","f","g","h","i","j","k","l","m",
           "n","o","p","q","r","s","t","u","v","w","x","y","z">>
UpperCase == <<"A","B","C","D","E","F","G","H","I","J","K","L","M",
               "N","O","P","Q","R","S","T","U","V","W","X","Y","Z">>
Digits == <<"0","1","2","3","4","5","6","7","8","9">>
Whitespace == {" "}

IndexIn(c, s) == IF \E i \in 1..Len(s) : s[i] = c
                 THEN CHOOSE i \in 1..Len(s) : s[i] = c
                 ELSE 0

UpperChar(c) == IF IndexIn(c, Lower) > 0 THEN UpperCase[IndexIn(c, Lower)] ELSE c

\* str.upper()
Upper(s) == [i \in 1..Len(s) |-> UpperChar(s[i])]

RECURSIVE LStrip(_)
LStrip(s) == IF s # <<>> /\ Head(s) \in Whitespace THEN LStrip(Tail(s)) ELSE s

RECURSIVE RStrip(_)
RStrip(s) == IF s # <<>> /\ s[Len(s)] \in Whitespace
             THEN RStrip(SubSeq(s, 1, Len(s) - 1))
             ELSE s

\* str.strip()
Strip(s) == RStrip(LStrip(s))

IsDigits(s) == s # <<>> /\ \A i \in 1..Len(s) : IndexIn(s[i], Digits) > 0

RECURSIVE DigitsValue(_)
DigitsValue(s) == IF s = <<>> THEN 0
                  ELSE 10 * DigitsValue(SubSeq(s, 1, Len(s) - 1))
                       + (IndexIn(s[Len(s)], Digits) - 1)

\* int(text): surrounding blanks and one sign are accepted; anything else
\* raises ValueError, which is None here.
ParseInt(raw) ==
    LET t == Strip(raw)
        signed == t # <<>> /\ Head(t) \in {"-", "+"}
        body == IF signed THEN Tail(t) ELSE t
    IN  IF ~IsDigits(body) THEN None
        ELSE IF signed /\ Head(t) = "-" THEN Some(0 - DigitsValue(body))
        ELSE Some(DigitsValue(body))

\* A row of csv.DictReader: each field is Some(text), or None when the file
\* has no such column.
\* int(row["Length"]) under try/except (ValueError, KeyError): None when the
\* row is dropped.
RowLength(row) == IF row.Length = None THEN None ELSE ParseInt(The(row.Length))

\* row.get("Team", "Unknown Team")
RowTeam(row) == IF row.Team = None THEN UNKNOWN_TEAM ELSE The(row.Team)

\* row.get("StreakType", "").strip().upper()
RowStreakType(row) ==
    Upper(Strip(IF row.StreakType = None THEN <<>> ELSE The(row.StreakType)))

\* ------------------------------------------------------------ aggregation
\* A defaultdict: d[key] += amount, the key created with its default.
Bump(d, key, amount) ==
    [k \in DOMAIN d \cup {key} |->
        IF k = key THEN (IF key \in DOMAIN d THEN d[key] ELSE 0) + amount
        ELSE d[k]]

BumpWinLoss(d, key, type) ==
    [k \in DOMAIN d \cup {key} |->
        IF k = key
        THEN LET old == IF key \in DOMAIN d THEN d[key] ELSE [t \in WIN_LOSS_TYPES |-> 0]
             IN  [old EXCEPT ![type] = @ + 1]
        ELSE d[k]]

EmptyMap == [k \in {} |-> 0]

\* "if length >= threshold" (QualifiesStrict: the comparison made strict)
QualifiesStrict(length, threshold) == length > threshold
Qualifies(length, threshold) == length >= threshold

\* "season not in IGNORED_SEASONS" / "season in IGNORED_SEASONS"
IsIgnored(s) == s \in IGNORED_SEASONS

\* The first loop over THRESHOLDS: year_counts.
YearCountsAfter(yc, s, length) ==
    [t \in THRESHOLDS |->
        IF Qualifies(length, t) THEN Bump(yc[t], s, 1) ELSE yc[t]]

\* The first loop over THRESHOLDS: team_streak_totals_by_threshold
\* (TeamTotalsCountingIgnored: without the test of the season;
\* TeamTotalsLastStreak: "=" for "+=").
TeamTotalsCountingIgnored(tt, team, s, length) ==
    [t \in THRESHOLDS |->
        IF Qualifies(length, t) THEN Bump(tt[t], <<team, s>>, length) ELSE tt[t]]
TeamTotalsLastStreak(tt, team, s, length) ==
    [t \in THRESHOLDS |->
        IF Qualifies(length, t) /\ ~IsIgnored(s)
        THEN [k \in DOMAIN tt[t] \cup {<<team, s>>} |->
                 IF k = <<team, s>> THEN length ELSE tt[t][k]]
        ELSE tt[t]]
TeamTotalsAfter(tt, team, s, length) ==
    [t \in THRESHOLDS |->
        IF Qualifies(length, t) /\ ~IsIgnored(s)
        THEN Bump(tt[t], <<team, s>>, length)
        ELSE tt[t]]

\* The two "continue" statements before the win/loss loop
\* (SkipsWinLossIgnoredOnly: without the first).
SkipsWinLossIgnoredOnly(type, s) == IsIgnored(s)
SkipsWinLoss(type, s) == type \notin WIN_LOSS_TYPES \/ IsIgnored(s)

\* The second loop over THRESHOLDS: team_win_loss_counts.
WinLossAfter(wl, team, s, type, length) ==
    IF SkipsWinLoss(type, s) THEN wl
    ELSE [t \in THRESHOLDS |->
            IF Qualifies(length, t) THEN BumpWinLoss(wl[t], <<team, s>>, type) ELSE wl[t]]

\* ---------------------------------------------------------------- numbers
\* RANK_TOLERANCE = 1e-9, in grid units.
RANK_TOLERANCE == 2
\* The literal 1e-9 of _is_effectively_int and of the discrete-mode marker.
INT_TOLERANCE == 2
\* Grid units in 1.0 (a float f is the integer f * One): the coarsest grid on
\* which a value can be a tolerance away from every whole number.
One == 2 * INT_TOLERANCE
DEFAULT_TOP_N == 10
DEFAULT_WIDTH == 30
DEFAULT_MAX_BINS == 10

Abs(x) == IF x < 0 THEN 0 - x ELSE x
Min2(a, b) == IF a <= b THEN a ELSE b

\* float(n) of an integer n
Float(n) == n * One

\* n / d rounded to the nearest integer, halves to the even one (round(), and
\* the rounding of a format specification), for d > 0.
RoundHalfEven(n, d) ==
    LET q == n \div d
        r == n - q * d
    IN  IF 2 * r < d THEN q
        ELSE IF 2 * r > d THEN q + 1
        ELSE IF q % 2 = 0 THEN q ELSE q + 1

\* int(n / d): truncation toward zero, for d > 0.
TruncDiv(n, d) == IF n >= 0 THEN n \div d ELSE 0 - ((0 - n) \div d)

SetMin(S) == CHOOSE x \in S : \A y \in S : x <= y
SetMax(S) == CHOOSE x \in S : \A y \in S : x >= y
Range(s) == {s[i] : i \in 1..Len(s)}

\* sorted(S) of a set of numbers
RECURSIVE Sorted(_)
Sorted(S) == IF S = {} THEN <<>> ELSE <<SetMin(S)>> \o Sorted(S \ {SetMin(S)})

\* sum(1 for item in values if item in chosen)
CountIn(values, chosen) == Cardinality({i \in 1..Len(values) : values[i] \in chosen})

\* ---------------------------------------------------------------- ranking
ordinal(value) ==
    LET remainder == value % 100
        suffix == IF 10 <= remainder /\ remainder <= 20 THEN "th"
                  ELSE IF value % 10 = 1 THEN "st"
                  ELSE IF value % 10 = 2 THEN "nd"
                  ELSE IF value % 10 = 3 THEN "rd"
                  ELSE "th"
    IN  <<value, suffix>>

\* compute_rank, and two variants of it: one that always ranks lower values
\* first, one that counts the ties among the better.
compute_rank_lower_is_better(value, values, higher_is_better, tolerance) ==
    IF values = <<>> THEN [rank |-> 0, tied |-> 0, total |-> 0]
    ELSE LET better == CountIn(values, {item \in Range(values) : item < value - tolerance})
             tied == CountIn(values, {item \in Range(values) : Abs(item - value) <= tolerance})
         IN  [rank |-> better + 1, tied |-> tied, total |-> Len(values)]

compute_rank_ties_are_better(value, values, higher_is_better, tolerance) ==
    IF values = <<>> THEN [rank |-> 0, tied |-> 0, total |-> 0]
    ELSE LET better == IF higher_is_better
                       THEN CountIn(values, {item \in Range(values) : item >= value})
                       ELSE CountIn(values, {item \in Range(values) : item <= value})
             tied == CountIn(values, {item \in Range(values) : Abs(item - value) <= tolerance})
         IN  [rank |-> better + 1, tied |-> tied, total |-> Len(values)]

compute_rank(value, values, higher_is_better, tolerance) ==
    IF values = <<>> THEN [rank |-> 0, tied |-> 0, total |-> 0]
    ELSE LET better == IF higher_is_better
                       THEN CountIn(values, {item \in Range(values) : item > value + tolerance})
                       ELSE CountIn(values, {item \in Range(values) : item < value - tolerance})
             tied == CountIn(values, {item \in Range(values) : Abs(item - value) <= tolerance})
         IN  [rank |-> better + 1, tied |-> tied, total |-> Len(values)]

\* The annotation text: prefix, then the ordinal, then " all-time"
\* (top_rank_annotation_never_tied: without the tied wording).
top_rank_annotation_never_tied(value, values, higher_is_better, top_n, tolerance) ==
    IF value = None \/ values = <<>> THEN None
    ELSE LET r == compute_rank(The(value), values, higher_is_better, tolerance)
         IN  IF r.rank = 0 \/ r.rank > top_n THEN None
             ELSE Some([prefix |-> "", ordinal |-> ordinal(r.rank), suffix |-> " all-time"])

top_rank_annotation(value, values, higher_is_better, top_n, tolerance) ==
    IF value = None \/ values = <<>> THEN None
    ELSE LET r == compute_rank(The(value), values, higher_is_better, tolerance)
         IN  IF r.rank = 0 \/ r.rank > top_n THEN None
             ELSE IF r.tied > 1
             THEN Some([prefix |-> "tied for ", ordinal |-> ordinal(r.rank),
                        suffix |-> " all-time"])
             ELSE Some([prefix |-> "", ordinal |-> ordinal(r.rank), suffix |-> " all-time"])

\* (count / len(data)) * 100, kept exact as <<100 * count, len(data)>>
\* (percentile_rank_at_or_above: the comparison turned round).
percentile_rank_at_or_above(value, data) ==
    IF value = None \/ data = <<>> THEN None
    ELSE Some(<<100 * CountIn(data, {item \in Range(data) : item >= The(value)}), Len(data)>>)

percentile_rank(value, data) ==
    IF value = None \/ data = <<>> THEN None
    ELSE Some(<<100 * CountIn(data, {item \in Range(data) : item <= The(value)}), Len(data)>>)

\* f"{value:.1f} percentile": the tenths of the quotient q = <<n, d>>.
format_percentile(value) ==
    IF value = None THEN <<"percentile unavailable">>
    ELSE <<RoundHalfEven(10 * The(value)[1], The(value)[2]), " percentile">>

\* ------------------------------------------------------------------ chart
\* abs(value - round(value)) < 1e-9
_is_effectively_int(value) ==
    Abs(value - One * RoundHalfEven(value, One)) < INT_TOLERANCE

\* f"{x:.1f}" of the quotient n / d of grid units: its tenths.
Format1f(n, d) == <<"%.1f", RoundHalfEven(10 * n, d * One)>>

\* str(int(round(value))) when as_int, else f"{value:.1f}"
_format_single(value, as_int) ==
    IF as_int THEN <<"%d", RoundHalfEven(value, One)>> ELSE Format1f(value, 1)

\* f"{start:.1f}-{end:.1f}" of two quotients of grid units
_format_range(start, end) == <<Format1f(start[1], start[2]), "-", Format1f(end[1], end[2])>>

\* int(round((count / max_count) * width)), at least 1 for a non-empty line
BarLength(count, max_count, width) ==
    IF max_count = 0 THEN 0
    ELSE LET bar_length == RoundHalfEven(count * width, max_count)
         IN  IF count > 0 /\ bar_length = 0 THEN 1 ELSE bar_length

\* f" <-- {highlight_label} {_format_single(highlight_value, as_int)}"
HighlightMarker(highlight_label, highlight_value, as_int) ==
    <<[arrow |-> " <-- ", label |-> highlight_label,
       value |-> _format_single(highlight_value, as_int)]>>

\* f" ({format_percentile(highlight_percentile)})"
PercentileMarker(highlight_percentile) ==
    <<[percentile |-> format_percentile(highlight_percentile)]>>

\* int((value - min_value) / step) with step = (max_value - min_value) / bin_count
\* (1.0 when that is 0)
RawBinIndex(value, min_value, max_value, bin_count) ==
    IF max_value = min_value THEN TruncDiv(value - min_value, One)
    ELSE TruncDiv((value - min_value) * bin_count, max_value - min_value)

\* The bin of a member of the distribution: the index clamped to the bins
\* (BinIndexUnclamped: not clamped).
BinIndexUnclamped(value, min_value, max_value, bin_count) ==
    RawBinIndex(value, min_value, max_value, bin_count)
BinIndex(value, min_value, max_value, bin_count) ==
    LET index == RawBinIndex(value, min_value, max_value, bin_count)
    IN  IF index >= bin_count THEN bin_count - 1
        ELSE IF index < 0 THEN 0
        ELSE index

\* discrete_mode = as_int and (prefer_discrete or unique_count <= max_bins)
\* (DiscreteModeIgnoringBins: as_int alone).
DiscreteModeIgnoringBins(as_int, prefer_discrete, unique_count, max_bins) == as_int
DiscreteMode(as_int, prefer_discrete, unique_count, max_bins) ==
    as_int /\ (prefer_discrete \/ unique_count <= max_bins)

\* The chart: the branch taken (mode), the header and the lines after it.  A
\* line is its label, its bar length, the count in parentheses and the marker
\* text appended to it.
build_distribution_chart(values, highlight, highlight_label, highlight_percentile, width, max_bins, prefer_discrete) ==
    IF values = <<>> THEN [mode |-> "empty", header |-> None, lines |-> <<>>]
    ELSE
    LET min_value == SetMin(Range(values))
        max_value == SetMax(Range(values))
        as_int == \A i \in 1..Len(values) : _is_effectively_int(values[i])
        unique_count == Cardinality(Range(values))
        bin_count0 == IF unique_count # 0 THEN Min2(max_bins, unique_count) ELSE 1
        bin_count == IF bin_count0 <= 0 THEN 1 ELSE bin_count0
    IN
    IF max_value = min_value
    THEN [mode |-> "single", header |-> Some("Value"),
          lines |-> <<[label |-> _format_single(min_value, as_int),
                       bar |-> width,
                       count |-> Len(values),
                       marker |-> IF highlight # None
                                  THEN HighlightMarker(highlight_label, The(highlight), as_int)
                                  ELSE <<>>]>>]
    ELSE IF DiscreteMode(as_int, prefer_discrete, unique_count, max_bins)
    THEN
        LET sorted_values == Sorted(Range(values))
            value_counts == [v \in Range(values) |-> CountIn(values, {item \in Range(values) : item = v})]
            max_count == SetMax({value_counts[v] : v \in Range(values)})
        IN  [mode |-> "discrete", header |-> Some("Value"),
             lines |-> [k \in 1..Len(sorted_values) |->
                LET value == sorted_values[k]
                    count == value_counts[value]
                IN  [label |-> Format1f(value, 1),
                     bar |-> BarLength(count, max_count, width),
                     count |-> count,
                     marker |->
                        (IF highlight # None /\ Abs(The(highlight) - value) < INT_TOLERANCE
                         THEN HighlightMarker(highlight_label, The(highlight), as_int)
                         ELSE <<>>)
                        \o (IF highlight_percentile # None
                            THEN PercentileMarker(highlight_percentile)
                            ELSE <<>>)]]]
    ELSE
        LET bin_counts == [b \in 0..(bin_count - 1) |->
                CountIn(values, {item \in Range(values) : BinIndex(item, min_value, max_value, bin_count) = b})]
            max_count == SetMax({bin_counts[b] : b \in 0..(bin_count - 1)})
            index == IF highlight = None THEN 0
                     ELSE RawBinIndex(The(highlight), min_value, max_value, bin_count)
            highlight_index ==
                IF highlight = None THEN None
                ELSE IF 0 <= index /\ index < bin_count THEN Some(index)
                ELSE IF The(highlight) >= max_value THEN Some(bin_count - 1)
                ELSE None
        IN  [mode |-> "binned", header |-> Some("Range"),
             lines |-> [k \in 1..bin_count |->
                LET position == k - 1
                    start == <<min_value * bin_count + position * (max_value - min_value),
                               bin_count>>
                    end == IF position < bin_count - 1
                           THEN <<min_value * bin_count
                                    + (position + 1) * (max_value - min_value),
                                  bin_count>>
                           ELSE <<max_value, 1>>
                    count == bin_counts[position]
                IN  [label |-> _format_range(start, end),
                     bar |-> BarLength(count, max_count, width),
                     count |-> count,
                     marker |->
                        IF highlight_index = Some(position) /\ highlight # None
                        THEN HighlightMarker(highlight_label, The(highlight), as_int)
                             \o (IF highlight_percentile # None
                                 THEN PercentileMarker(highlight_percentile)
                                 ELSE <<>>)
                        ELSE <<>>]]]

\* --------------------------------------------------------------- schedule
\* (effective-from-year, games-per-season), in the order of the table
SEASON_GAME_PHASES ==
    <<<<1900, 140>>, <<1904, 154>>, <<1919, 140>>, <<1920, 154>>, <<1962, 162>>>>

\* "if season >= start_year" (PhaseStartedBefore: the comparison made strict)
PhaseStartedBefore(season_, start_year) == season_ > start_year
PhaseStarted(season_, start_year) == season_ >= start_year

\* The loop over the table from its entry i on, with games as set so far: an
\* entry that has started sets games, the first that has not ends the loop.
RECURSIVE PhaseLoop(_, _, _)
PhaseLoop(season_, i, games) ==
    IF i > Len(SEASON_GAME_PHASES) THEN games
    ELSE IF PhaseStarted(season_, SEASON_GAME_PHASES[i][1])
    THEN PhaseLoop(season_, i + 1, SEASON_GAME_PHASES[i][2])
    ELSE games

\* games = SEASON_GAME_PHASES[0][1], then the loop
games_in_season(season_) == PhaseLoop(season_, 1, SEASON_GAME_PHASES[1][2])

\* ------------------------------------------------------------------ main
\* d.get(key), with 0 for a key that is not there
Get(d, key) == IF key \in DOMAIN d THEN d[key] ELSE 0

\* extract_season(path) of the files found: a season, or None for a name the
\* pattern does not match.
FileSeasons == {Some(2020), Some(2024), Some(CURRENT_SEASON), None}

RawTeams == {Some("Alpha"), None}
RawTypes == {Some(<<"W", "I", "N">>), Some(<<" ", "l", "o", "s", "s", " ">>),
             Some(<<"T", "I", "E">>)}
RawLengths == {Some(<<"4">>), Some(<<"6">>), Some(<<" ", "1", "0">>), Some(<<"x">>), None}

\* The rows of the season files.
Rows == [Team : RawTeams, Length : RawLengths, StreakType : RawTypes, StartDate : {None}]

EmptyMaps == [t \in THRESHOLDS |-> EmptyMap]

InitMain ==
    /\ pc = "start"
    /\ season = None
    /\ processed = EmptyBag
    /\ year_counts = EmptyMaps
    /\ team_streak_totals_by_threshold = EmptyMaps
    /\ team_win_loss_counts = EmptyMaps
    /\ chrono = EmptyMap
    /\ swing_counts = EmptyMaps
    /\ report = EmptyMap
    /\ args = None
    /\ out = None

Init == InitMain

\* "if not files: ... return"
NoFiles ==
    /\ pc = "start"
    /\ pc' = "done"
    /\ UNCHANGED <<season, processed, year_counts,
                   team_streak_totals_by_threshold, team_win_loss_counts,
                   chrono, swing_counts, report, args, out>>

\* "for path in files: season = extract_season(path)"; a file whose season is
\* None is passed over.
NextFile ==
    /\ pc \in {"start", "agg"}
    /\ \E s \in FileSeasons : season' = s
    /\ pc' = "agg"
    /\ UNCHANGED <<processed, year_counts,
                   team_streak_totals_by_threshold, team_win_loss_counts,
                   chrono, swing_counts, report, args, out>>

\* The record of a row whose Length parsed, as the history keeps it.
Parsed(s, row) ==
    [season |-> s, team |-> RowTeam(row), length |-> The(RowLength(row)),
     streak_type |-> row.StreakType]

\* The body of "for row in reader": a row whose Length does not parse is
\* dropped, and changes nothing.
RowStep(row, max_rows) ==
    /\ pc = "agg"
    /\ season # None
    /\ LET length == RowLength(row)
           s == The(season)
       IN  IF length = None
           THEN UNCHANGED <<processed, year_counts, team_streak_totals_by_threshold,
                            team_win_loss_counts>>
           ELSE /\ BagCardinality(processed) < max_rows
                /\ processed' = processed (+) SetToBag({Parsed(s, row)})
                /\ year_counts' = YearCountsAfter(year_counts, s, The(length))
                /\ team_streak_totals_by_threshold' =
                       TeamTotalsAfter(team_streak_totals_by_threshold,
                                       RowTeam(row), s, The(length))
                /\ team_win_loss_counts' =
                       WinLossAfter(team_win_loss_counts, RowTeam(row), s,
                                    RowStreakType(row), The(length))
    /\ UNCHANGED <<pc, season, report, args, out>>

ProcessRow ==
    /\ \E row \in Rows : RowStep(row, MaxRows)
    /\ UNCHANGED <<chrono, swing_counts>>

\* The distribution of one threshold's year counts: float(value) of
\* counts.values().
DistributionOf(counts) ==
    LET years == Sorted(DOMAIN counts)
    IN  [i \in 1..Len(years) |-> Float(counts[years[i]])]

\* The "Yearly streak counts" section for one threshold.
YearlySection(counts) ==
    IF DOMAIN counts = {}
    THEN [record |-> None, current |-> None, annotation |-> None,
          percentile |-> None, chart |-> None]
    ELSE LET max_count == SetMax({counts[y] : y \in DOMAIN counts})
             winning_years == Sorted({y \in DOMAIN counts : counts[y] = max_count})
             distribution_values == DistributionOf(counts)
         IN  IF CURRENT_SEASON \in DOMAIN counts
             THEN LET current_count == counts[CURRENT_SEASON]
                      current_percentile ==
                          percentile_rank(Some(Float(current_count)), distribution_values)
                  IN  [record |-> Some([years |-> winning_years, streaks |-> max_count]),
                       current |-> Some(current_count),
                       annotation |->
                           top_rank_annotation(Some(Float(current_count)),
                                               distribution_values, TRUE,
                                               DEFAULT_TOP_N, RANK_TOLERANCE),
                       percentile |-> current_percentile,
                       chart |-> Some(build_distribution_chart(
                                     distribution_values, Some(Float(current_count)),
                                     "2025", current_percentile,
                                     DEFAULT_WIDTH, DEFAULT_MAX_BINS, FALSE))]
             ELSE [record |-> Some([years |-> winning_years, streaks |-> max_count]),
                   current |-> None, annotation |-> None,
                   percentile |-> None, chart |-> None]

\* The end of the files: the "Yearly streak counts" report.
YearlyReport ==
    /\ pc = "agg"
    /\ report' = [t \in THRESHOLDS |-> YearlySection(year_counts[t])]
    /\ pc' = "done"
    /\ UNCHANGED <<season, processed, year_counts,
                   team_streak_totals_by_threshold, team_win_loss_counts,
                   chrono, swing_counts, args, out>>

Next == NoFiles \/ NextFile \/ ProcessRow \/ YearlyReport

Spec == Init /\ [][Next]_vars

\* ------------------------------------------------------------------ swings
\* The script variant with swing detection: the same pass, which also keeps a
\* chronological buffer per team-season, and a scan of the sorted buffers
\* after it.
SwingFileSeasons == {Some(2020), Some(CURRENT_SEASON)}

\* The rows of the season files: WIN and LOSS streaks of 5 to 7 games on two
\* days, and one row each that is too short, not a win or a loss, and undated.
SwingRows ==
    [Team : {Some("Alpha")},
     Length : {Some(<<"5">>), Some(<<"6">>), Some(<<"7">>)},
     StreakType : {Some(<<"W", "I", "N">>), Some(<<" ", "l", "o", "s", "s", " ">>)},
     StartDate : {Some(1), Some(2)}]
    \cup
    {[Team |-> Some("Alpha"), Length |-> Some(<<"4">>),
      StreakType |-> Some(<<"W", "I", "N">>), StartDate |-> Some(2)],
     [Team |-> Some("Alpha"), Length |-> Some(<<"7">>),
      StreakType |-> Some(<<"T", "I", "E">>), StartDate |-> Some(2)],
     [Team |-> Some("Alpha"), Length |-> Some(<<"7">>),
      StreakType |-> Some(<<"W", "I", "N">>), StartDate |-> None]}

\* The start date of a row, parsed: a day number, or None.
RowStartDate(row) == row.StartDate

MinThreshold == SetMin(THRESHOLDS)

\* Step 4 of the pass: a WIN or LOSS record of a season that is not ignored,
\* at least as long as the smallest threshold and with a start date, is
\* appended to its team-season's buffer.
ChronoAfter(ch, team, s, type, length, date) ==
    IF SkipsWinLoss(type, s) \/ length < MinThreshold \/ date = None THEN ch
    ELSE LET key == <<team, s>>
             entry == [date |-> The(date), type |-> type, length |-> length]
         IN  [k \in DOMAIN ch \cup {key} |->
                 IF k = key
                 THEN (IF key \in DOMAIN ch THEN ch[key] ELSE <<>>) \o <<entry>>
                 ELSE ch[k]]

\* A stable sort, ascending by start date: entries of one date keep their
\* input order.
RECURSIVE InsertByDate(_, _)
InsertByDate(sorted, entry) ==
    IF sorted = <<>> THEN <<entry>>
    ELSE IF sorted[Len(sorted)].date <= entry.date THEN Append(sorted, entry)
    ELSE Append(InsertByDate(SubSeq(sorted, 1, Len(sorted) - 1), entry),
                sorted[Len(sorted)])

RECURSIVE SortByDate(_)
SortByDate(buffer) ==
    IF buffer = <<>> THEN <<>>
    ELSE InsertByDate(SortByDate(SubSeq(buffer, 1, Len(buffer) - 1)), buffer[Len(buffer)])

\* The adjacent pairs of a sorted buffer that are a swing at a threshold
\* (SwingsSameTypeToo: without the test of the types).
SwingsSameTypeToo(sorted, t) ==
    Cardinality({i \in 1..(Len(sorted) - 1) :
        t <= Min2(sorted[i].length, sorted[i + 1].length)})
Swings(sorted, t) ==
    Cardinality({i \in 1..(Len(sorted) - 1) :
        /\ sorted[i].type # sorted[i + 1].type
        /\ t <= Min2(sorted[i].length, sorted[i + 1].length)})

\* The scan after the pass: SwingCount, with a key for each team-season that
\* has a swing at the threshold.
SwingCountsOf(ch) ==
    [t \in THRESHOLDS |->
        LET keys == {k \in DOMAIN ch : Swings(SortByDate(ch[k]), t) > 0}
        IN  [k \in keys |-> Swings(SortByDate(ch[k]), t)]]

NextFileSwing ==
    /\ pc \in {"start", "agg"}
    /\ \E s \in SwingFileSeasons : season' = s
    /\ pc' = "agg"
    /\ UNCHANGED <<processed, year_counts,
                   team_streak_totals_by_threshold, team_win_loss_counts,
                   chrono, swing_counts, report, args, out>>

ProcessRowSwing ==
    /\ \E row \in SwingRows :
          /\ RowStep(row, MaxSwingRows)
          /\ chrono' = IF RowLength(row) = None THEN chrono
                       ELSE ChronoAfter(chrono, RowTeam(row), The(season),
                                        RowStreakType(row), The(RowLength(row)),
                                        RowStartDate(row))
    /\ UNCHANGED swing_counts

SwingPass ==
    /\ pc = "agg"
    /\ swing_counts' = SwingCountsOf(chrono)
    /\ pc' = "done"
    /\ UNCHANGED <<season, processed, year_counts,
                   team_streak_totals_by_threshold, team_win_loss_counts,
                   chrono, report, args, out>>

NextSwing == NextFileSwing \/ ProcessRowSwing \/ SwingPass

SpecSwing == Init /\ [][NextSwing]_vars

\* ------------------------------------------------- the functions, called
\* The sequences over S of at most n members.
SeqsUpTo(S, n) == UNION {[1..k -> S] : k \in 0..n}

InitFn(distributions) ==
    /\ pc = "fn"
    /\ season = None
    /\ processed = EmptyBag
    /\ year_counts = EmptyMaps
    /\ team_streak_totals_by_threshold = EmptyMaps
    /\ team_win_loss_counts = EmptyMaps
    /\ chrono = EmptyMap
    /\ swing_counts = EmptyMaps
    /\ report = EmptyMap
    /\ \E values \in distributions : args = [values |-> values]
    /\ out = [fn |-> "none"]

UnchangedMain ==
    UNCHANGED <<season, processed, year_counts, team_streak_totals_by_threshold,
                team_win_loss_counts, chrono, swing_counts, report, args>>

\* The ranking functions, called on one distribution with any value, any
\* number of times.
RankValues == 0..MaxRankValue
TopNs == {1, 2, DEFAULT_TOP_N}

InitRank == InitFn(SeqsUpTo(RankValues, MaxLen))

CallComputeRank ==
    /\ pc = "fn"
    /\ \E value \in RankValues, higher_is_better \in BOOLEAN :
          out' = [fn |-> "compute_rank", value |-> value,
                  higher_is_better |-> higher_is_better,
                  result |-> compute_rank(value, args.values, higher_is_better,
                                          RANK_TOLERANCE)]
    /\ UNCHANGED pc
    /\ UnchangedMain

CallTopRankAnnotation ==
    /\ pc = "fn"
    /\ \E value \in {None} \cup {Some(v) : v \in RankValues}, top_n \in TopNs :
          out' = [fn |-> "top_rank_annotation", value |-> value, top_n |-> top_n,
                  result |-> top_rank_annotation(value, args.values, TRUE, top_n,
                                                 RANK_TOLERANCE)]
    /\ UNCHANGED pc
    /\ UnchangedMain

CallPercentileRank ==
    /\ pc = "fn"
    /\ \E value \in {None} \cup {Some(v) : v \in RankValues} :
          out' = [fn |-> "percentile_rank", value |-> value,
                  result |-> percentile_rank(value, args.values)]
    /\ UNCHANGED pc
    /\ UnchangedMain

NextRank == CallComputeRank \/ CallTopRankAnnotation \/ CallPercentileRank

SpecRank == InitRank /\ [][NextRank]_vars

\* The chart renderer, called once on a distribution: values from 0.0 to 2.0
\* on the grid, whole, nearly whole and neither.
ChartValues == 0..(2 * One)
MaxBinsChoices == {2, DEFAULT_MAX_BINS}

InitChart == InitFn(SeqsUpTo(ChartValues, MaxChartLen))

CallBuildDistributionChart ==
    /\ pc = "fn"
    /\ \E highlight \in {None} \cup {Some(v) : v \in ChartValues},
          with_percentile \in BOOLEAN,
          max_bins \in MaxBinsChoices,
          prefer_discrete \in BOOLEAN :
          LET highlight_percentile ==
                  IF with_percentile THEN percentile_rank(highlight, args.values)
                  ELSE None
          IN  out' = [fn |-> "build_distribution_chart",
                      highlight |-> highlight,
                      highlight_percentile |-> highlight_percentile,
                      max_bins |-> max_bins,
                      prefer_discrete |-> prefer_discrete,
                      result |-> build_distribution_chart(
                                     args.values, highlight, "2025",
                                     highlight_percentile, DEFAULT_WIDTH,
                                     max_bins, prefer_discrete)]
    /\ pc' = "done"
    /\ UnchangedMain

NextChart == CallBuildDistributionChart

SpecChart == InitChart /\ [][NextChart]_vars

\* games_in_season, called once on a season: any season that a file name can
\* carry (four digits).
Seasons == 0..9999

InitGames ==
    /\ pc = "fn"
    /\ season = None
    /\ processed = EmptyBag
    /\ year_counts = EmptyMaps
    /\ team_streak_totals_by_threshold = EmptyMaps
    /\ team_win_loss_counts = EmptyMaps
    /\ chrono = EmptyMap
    /\ swing_counts = EmptyMaps
    /\ report = EmptyMap
    /\ \E s \in Seasons : args = [season |-> s]
    /\ out = [fn |-> "none"]

CallGamesInSeason ==
    /\ pc = "fn"
    /\ out' = [fn |-> "games_in_season", result |-> games_in_season(args.season)]
    /\ pc' = "done"
    /\ UnchangedMain

NextGames == CallGamesInSeason

SpecGames == InitGames /\ [][NextGames]_vars

\* ================================================================= claims
\* The records of the history, and sums over them.
RECURSIVE SumOver(_, _)
SumOver(S, f) ==
    IF S = {} THEN 0
    ELSE LET x == CHOOSE y \in S : TRUE
         IN  f[x] + SumOver(S \ {x}, f)

Records == BagToSet(processed)

\* The number of records of a season that are at least t long.
StreaksAtLeast(t, s) ==
    SumOver(Records, [r \in Records |->
        IF r.season = s /\ r.length >= t THEN CopiesIn(r, processed) ELSE 0])

\* The games of a team-season in records that are at least t long.
GamesAtLeast(t, team, s) ==
    SumOver(Records, [r \in Records |->
        IF r.team = team /\ r.season = s /\ r.length >= t
        THEN r.length * CopiesIn(r, processed)
        ELSE 0])

\* The streak type of a record, trimmed and in upper case.
TypeOf(r) == IF r.streak_type = None THEN <<>> ELSE Upper(Strip(The(r.streak_type)))

SeasonsSeen == {r.season : r \in Records}
TeamSeasonsSeen == {<<r.team, r.season>> : r \in Records}

\* C1: for every threshold, the records of an ignored season are counted in
\* YearCount (one per record at least as long as the threshold), and no key
\* of an ignored season is in TeamStreakTotal, TeamWinLossCount or SwingCount.
C1_IgnoredSeasonExcluded ==
    \A t \in THRESHOLDS :
        /\ \A s \in IGNORED_SEASONS :
              /\ Get(year_counts[t], s) = StreaksAtLeast(t, s)
              /\ s \in DOMAIN year_counts[t] <=> StreaksAtLeast(t, s) > 0
        /\ \A key \in DOMAIN team_streak_totals_by_threshold[t]
                      \cup DOMAIN team_win_loss_counts[t]
                      \cup DOMAIN swing_counts[t] :
              key[2] \notin IGNORED_SEASONS

\* The pass is over, and an ignored season had a WIN and a LOSS streak that
\* reach the smallest threshold.
C1_Witness ==
    /\ pc = "done"
    /\ \E r1 \in Records, r2 \in Records :
          /\ r1.season \in IGNORED_SEASONS /\ r2.season = r1.season
          /\ TypeOf(r1) = WIN /\ TypeOf(r2) = LOSS
          /\ r1.length >= 5 /\ r2.length >= 5
          /\ year_counts[5][r1.season] >= 2

\* C2: a streak of length L counts at every threshold <= L and at no other:
\* YearCount[t][s] is the number of records of season s at least t long, and
\* for a season that is not ignored TeamStreakTotal[t][team, s] is the sum of
\* the lengths of the team-season's records at least t long.
C2_ThresholdContribution ==
    \A t \in THRESHOLDS :
        /\ \A s \in SeasonsSeen \cup DOMAIN year_counts[t] :
              Get(year_counts[t], s) = StreaksAtLeast(t, s)
        /\ \A key \in TeamSeasonsSeen \cup DOMAIN team_streak_totals_by_threshold[t] :
              key[2] \notin IGNORED_SEASONS =>
                  Get(team_streak_totals_by_threshold[t], key)
                      = GamesAtLeast(t, key[1], key[2])

\* A team-season with a streak of 6 and a streak of 10: 16 games at the
\* thresholds up to 6, 10 games above.
C2_Witness ==
    \E key \in DOMAIN team_streak_totals_by_threshold[5] :
        /\ team_streak_totals_by_threshold[5][key] = 16
        /\ team_streak_totals_by_threshold[6][key] = 16
        /\ team_streak_totals_by_threshold[7][key] = 10
        /\ year_counts[6][key[2]] = 2
        /\ year_counts[10][key[2]] = 1

\* The adjacent pairs of a sequence of buffer entries whose types differ and
\* whose lengths both reach t.
AlternatingPairs(entries, t) ==
    Cardinality({i \in 1..(Len(entries) - 1) :
        /\ entries[i].type # entries[i + 1].type
        /\ entries[i].length >= t
        /\ entries[i + 1].length >= t})

IsExampleBuffer(entries) ==
    /\ Len(entries) = 3
    /\ entries[1].type = WIN /\ entries[1].length = 6
    /\ entries[2].type = LOSS /\ entries[2].length = 7
    /\ entries[3].type = WIN /\ entries[3].length = 5

\* C3: after the scan, SwingCount[t][team, season] is the number of adjacent
\* pairs of the team-season's buffer, sorted by start date, whose types differ
\* and whose lengths both reach t; the buffer (WIN 6, LOSS 7, WIN 5) has 2
\* swings at threshold 5, 1 at threshold 6 and none at threshold 7.
C3_SwingCount ==
    pc = "done" =>
        \A key \in DOMAIN chrono :
            /\ \A t \in THRESHOLDS :
                  Get(swing_counts[t], key) = AlternatingPairs(SortByDate(chrono[key]), t)
            /\ IsExampleBuffer(SortByDate(chrono[key])) =>
                  /\ Get(swing_counts[5], key) = 2
                  /\ Get(swing_counts[6], key) = 1
                  /\ Get(swing_counts[7], key) = 0

\* The example buffer, read out of date order and scanned.
C3_Witness ==
    /\ pc = "done"
    /\ \E key \in DOMAIN chrono :
          /\ IsExampleBuffer(SortByDate(chrono[key]))
          /\ chrono[key] # SortByDate(chrono[key])
          /\ swing_counts[5][key] = 2

Within(a, b, tolerance) == Abs(a - b) <= tolerance

\* C4: for a non-empty distribution D, compute_rank returns a rank in
\* 1..|D|+1 and |D| as the total; when a member of D is within the tolerance
\* of the value the tie count is at least 1; rank + tie count <= |D| + 1.
C4_RankBounds ==
    (out.fn = "compute_rank" /\ args.values # <<>>) =>
        /\ out.result.rank \in 1..(Len(args.values) + 1)
        /\ out.result.total = Len(args.values)
        /\ (\E i \in 1..Len(args.values) :
               Within(args.values[i], out.value, RANK_TOLERANCE))
           => out.result.tied >= 1
        /\ out.result.rank + out.result.tied <= Len(args.values) + 1

\* A value with a member within the tolerance of it but not equal to it, and
\* a member that is better.
C4_Witness ==
    /\ out.fn = "compute_rank"
    /\ out.result.rank = 2
    /\ out.result.tied = 2
    /\ \E i \in 1..Len(args.values) : args.values[i] # out.value
          /\ Within(args.values[i], out.value, RANK_TOLERANCE)

\* C5: with higher_is_better, the rank of a smaller value in the same
\* distribution is never better (smaller) than the rank of a larger one.
C5_RankMonotonic ==
    [][(/\ out.fn = "compute_rank" /\ out'.fn = "compute_rank"
        /\ out.higher_is_better /\ out'.higher_is_better
        /\ out.value < out'.value)
       => out.result.rank >= out'.result.rank]_vars

\* A value that two members beat.
C5_Witness ==
    /\ out.fn = "compute_rank"
    /\ out.higher_is_better
    /\ out.result.rank = 3

BelowAll(value, values) == \A i \in 1..Len(values) : value < values[i]

\* C6, as claimed: the percentile rank of a value below every member of a
\* non-empty distribution D is 100 / |D|.
C6_BelowAllIsOneShare ==
    (/\ out.fn = "percentile_rank" /\ out.value # None /\ args.values # <<>>
     /\ BelowAll(The(out.value), args.values))
    => /\ out.result # None
       /\ The(out.result)[1] * Len(args.values) = 100 * The(out.result)[2]

\* C6, amended: the percentile rank of a value below every member of a
\* non-empty distribution is 0.
C6_BelowAllIsZero ==
    (/\ out.fn = "percentile_rank" /\ out.value # None /\ args.values # <<>>
     /\ BelowAll(The(out.value), args.values))
    => /\ out.result # None
       /\ The(out.result)[1] = 0
       /\ The(out.result)[2] = Len(args.values)

C6_Witness ==
    /\ out.fn = "percentile_rank" /\ out.value # None
    /\ Len(args.values) = 2
    /\ BelowAll(The(out.value), args.values)
    /\ out.result = Some(<<0, 2>>)

RECURSIVE SumCounts(_)
SumCounts(lines) ==
    IF lines = <<>> THEN 0 ELSE Head(lines).count + SumCounts(Tail(lines))

\* C7: the counts on the lines of the chart of a non-empty distribution D add
\* up to |D|, in every mode.
C7_CountsAddUp ==
    (out.fn = "build_distribution_chart" /\ args.values # <<>>) =>
        SumCounts(out.result.lines) = Len(args.values)

\* A binned chart of three bins, the largest value in the last of them.
C7_Witness ==
    /\ out.fn = "build_distribution_chart"
    /\ out.result.mode = "binned"
    /\ Len(out.result.lines) = 3
    /\ out.result.lines[3].count = 1
    /\ out.result.lines[1].count = 2

\* A value within 1e-9 of a whole number.
NearlyWhole(value) == \E n \in 0..(value + 1) : Abs(value - n * One) < INT_TOLERANCE

Distinct(values) == Cardinality({values[i] : i \in 1..Len(values)})

DiscreteExpected ==
    /\ \A i \in 1..Len(args.values) : NearlyWhole(args.values[i])
    /\ (out.prefer_discrete \/ Distinct(args.values) <= out.max_bins)

\* C8, as claimed: the chart of a non-empty distribution is in discrete mode
\* exactly when every value is whole and (prefer_discrete or the distinct
\* values are at most max_bins).
C8_DiscreteIff ==
    (out.fn = "build_distribution_chart" /\ args.values # <<>>) =>
        (out.result.mode = "discrete" <=> DiscreteExpected)

\* C8, amended: that holds of a distribution with two distinct values or more;
\* one whose values are all the same is drawn as a single bar, in neither
\* mode; and binned mode is never used when every value is whole and the
\* distinct values are at most max_bins.
C8_DiscreteIffDistinct ==
    out.fn = "build_distribution_chart" =>
        /\ Distinct(args.values) >= 2 =>
              (out.result.mode = "discrete" <=> DiscreteExpected)
        /\ Distinct(args.values) = 1 => out.result.mode = "single"
        /\ ((\A i \in 1..Len(args.values) : NearlyWhole(args.values[i]))
            /\ Distinct(args.values) <= out.max_bins)
           => out.result.mode # "binned"

\* More distinct whole values than max_bins, drawn one per line because the
\* caller prefers it.
C8_Witness ==
    /\ out.fn = "build_distribution_chart"
    /\ out.prefer_discrete
    /\ Distinct(args.values) > out.max_bins
    /\ out.result.mode = "discrete"
    /\ Len(out.result.lines) = 3

FirstAllTime == [prefix |-> "", ordinal |-> <<1, "st">>, suffix |-> " all-time"]

C10_OtherTypeFrame ==
    [][\A r \in BagToSet(processed') :
          (/\ CopiesIn(r, processed') = CopiesIn(r, processed) + 1
           /\ TypeOf(r) \notin WIN_LOSS_TYPES)
          => /\ team_win_loss_counts' = team_win_loss_counts
             /\ \A t \in THRESHOLDS :
                   IF r.length >= t
                   THEN /\ Get(year_counts'[t], r.season)
                              = Get(year_counts[t], r.season) + 1
                        /\ r.season \notin IGNORED_SEASONS =>
                              Get(team_streak_totals_by_threshold'[t], <<r.team, r.season>>)
                                  = Get(team_streak_totals_by_threshold[t],
                                        <<r.team, r.season>>) + r.length
                   ELSE /\ year_counts'[t] = year_counts[t]
                        /\ team_streak_totals_by_threshold'[t]
                               = team_streak_totals_by_threshold[t]]_vars

\* A streak of 10 that is neither a win nor a loss, in a season that is not
\* ignored: in the totals of every threshold, in no win/loss count.
C10_Witness ==
    \E r \in Records :
        /\ TypeOf(r) \notin WIN_LOSS_TYPES
        /\ r.season \notin IGNORED_SEASONS
        /\ r.length = 10
        /\ BagCardinality(processed) = 1
        /\ team_streak_totals_by_threshold[10][<<r.team, r.season>>] = 10
        /\ year_counts[10][r.season] = 1
        /\ \A t \in THRESHOLDS : DOMAIN team_win_loss_counts[t] = {}

\* The table of breakpoints as the claim gives it.
Breakpoints == <<[year |-> 1900, games |-> 140], [year |-> 1904, games |-> 154],
                 [year |-> 1919, games |-> 140], [year |-> 1920, games |-> 154],
                 [year |-> 1962, games |-> 162]>>

\* The last breakpoint of the table that is in effect in a season, if any.
IsLastBreakpoint(i, s) ==
    /\ Breakpoints[i].year <= s
    /\ \A j \in (i + 1)..Len(Breakpoints) : Breakpoints[j].year > s

\* C11, as claimed: for every season, games_in_season returns the games of
\* the last breakpoint whose effective-from-year is <= the season.
C11_LastBreakpoint ==
    out.fn = "games_in_season" =>
        \E i \in 1..Len(Breakpoints) :
            /\ IsLastBreakpoint(i, args.season)
            /\ out.result = Breakpoints[i].games

\* C11, amended: that holds of every season from the first breakpoint's year
\* (1900) on; a season before it has no breakpoint in effect, and
\* games_in_season returns the first breakpoint's games (140).
C11_LastBreakpointOrFirst ==
    out.fn = "games_in_season" =>
        /\ \A i \in 1..Len(Breakpoints) :
              IsLastBreakpoint(i, args.season) => out.result = Breakpoints[i].games
        /\ args.season >= Breakpoints[1].year =>
              \E i \in 1..Len(Breakpoints) : IsLastBreakpoint(i, args.season)
        /\ args.season < Breakpoints[1].year => out.result = Breakpoints[1].games

\* The season of 1919: the schedule is back to 140 games, after seasons of 154.
C11_Witness ==
    /\ out.fn = "games_in_season"
    /\ args.season = 1919
    /\ out.result = 140

\* The parts of the marker text appended to a line of a chart.
HasInlineMarker(line) ==
    \E i \in 1..Len(line.marker) : "arrow" \in DOMAIN line.marker[i]
HasPercentile(line) ==
    \E i \in 1..Len(line.marker) : "percentile" \in DOMAIN line.marker[i]

\* C12: in a chart rendered with a highlighted value and a highlight
\* percentile, the inline marker is on at most one line, and the percentile
\* annotation is on no line but that one, in discrete mode as in binned mode.
C12_AnnotationOnOneLine ==
    (/\ out.fn = "build_distribution_chart"
     /\ out.highlight # None /\ out.highlight_percentile # None)
    => LET lines == out.result.lines
           marked == {k \in 1..Len(lines) : HasInlineMarker(lines[k])}
           annotated == {k \in 1..Len(lines) : HasPercentile(lines[k])}
       IN  /\ Cardinality(marked) <= 1
           /\ annotated \subseteq marked

\* The maps after the records of a bag are processed one by one in one fixed
\* order, whatever order they were read in.
RECURSIVE AggregateOf(_)
AggregateOf(bag) ==
    IF bag = EmptyBag
    THEN [year_counts |-> EmptyMaps, team_streak_totals_by_threshold |-> EmptyMaps,
          team_win_loss_counts |-> EmptyMaps]
    ELSE LET r == CHOOSE x \in BagToSet(bag) : TRUE
             before == AggregateOf(bag (-) SetToBag({r}))
         IN  [year_counts |-> YearCountsAfter(before.year_counts, r.season, r.length),
              team_streak_totals_by_threshold |->
                  TeamTotalsAfter(before.team_streak_totals_by_threshold,
                                  r.team, r.season, r.length),
              team_win_loss_counts |->
                  WinLossAfter(before.team_win_loss_counts, r.team, r.season,
                               TypeOf(r), r.length)]

\* C13: the aggregation does not depend on the order of the records: in
\* whatever order, across and within season files, the records of a multiset
\* were processed, YearCount, TeamStreakTotal and TeamWinLossCount are at
\* every threshold the maps that one fixed order of that multiset gives.
C13_OrderIndependent ==
    LET fixed == AggregateOf(processed)
    IN  /\ year_counts = fixed.year_counts
        /\ team_streak_totals_by_threshold = fixed.team_streak_totals_by_threshold
        /\ team_win_loss_counts = fixed.team_win_loss_counts

\* The pass is over two different records of one team-season, a WIN streak
\* and a LOSS streak of different lengths, which either order of reading
\* leads to.
C13_Witness ==
    /\ pc = "done"
    /\ \E r1 \in Records, r2 \in Records :
          /\ r1.team = r2.team /\ r1.season = r2.season
          /\ r1.season \notin IGNORED_SEASONS
          /\ r1.length = 6 /\ r2.length = 10
          /\ TypeOf(r1) = WIN /\ TypeOf(r2) = LOSS
          /\ team_streak_totals_by_threshold[6][<<r1.team, r1.season>>] = 16
          /\ team_win_loss_counts[6][<<r1.team, r1.season>>][WIN] = 1
          /\ team_win_loss_counts[10][<<r1.team, r1.season>>][WIN] = 0
          /\ team_win_loss_counts[10][<<r1.team, r1.season>>][LOSS] = 1

====
